---- MODULE Spec2Model ----
(***************************************************************************)
(* A model of ICON/PNG/makegpc.py: the interlace permutation builder, the  *)
(* vertical and horizontal XOR transforms, the flag A / flag B encoder,    *)
(* the orchestrator Compress and the header's length field.                *)
(*                                                                         *)
(* Buffers (bytearray, memoryview, list) are functions over 0..n-1, so the *)
(* indices are those of the source.  An uncaught Python exception is the   *)
(* program position pc = "IndexError", "UnboundLocalError", "ValueError".  *)
(***************************************************************************)
EXTENDS Integers, FiniteSets, Sequences, TLC

VARIABLES pc,
          size, steps, table,
          w, h, srcbuf, hrz_lookup, vrt_lookup, rowbuf,
          workbuf, finalbuf, writeofs,
          vrtidx, y, rowstart, besthrz, bestofs, bestbuf, bestvrt,
          resets,
          compressed_len, outbuf

vars == <<pc, size, steps, table, w, h, srcbuf, hrz_lookup, vrt_lookup, rowbuf,
          workbuf, finalbuf, writeofs, vrtidx, y, rowstart, besthrz, bestofs, bestbuf,
          bestvrt, resets, compressed_len, outbuf>>

\* ------------------------------------------------------------------ bounds

\* Largest table size and largest step of the permutation builder's inputs.
MaxSize == 6
MaxStep == 8
\* Longest WorkBuffer handed to Encode alone (more than one flag A block).
MaxLen == 70
\* Longest period of the repeating byte patterns handed to Encode alone.
MaxPeriod == 3
\* Tallest image handed to Compress (step 4 differs from step 2 from h = 5).
MaxH == 5

\* ----------------------------------------------------------------- helpers

\* Python's None, and the value of a local that is not bound yet.
None == -1

Len0(f) == Cardinality(DOMAIN f)

Zeros(n) == [i \in 0 .. n - 1 |-> 0]

\* bytearray slice buf[from:] of a buffer, for from in -len..len.
SliceFrom(buf, from) ==
    LET n == Len0(buf)
        s == IF from < 0 THEN (IF from + n < 0 THEN 0 ELSE from + n)
             ELSE (IF from > n THEN n ELSE from)
    IN [i \in 0 .. n - s - 1 |-> buf[s + i]]

\* a ^ b on naturals.
RECURSIVE Xor(_, _)
Xor(a, b) ==
    IF a = 0 THEN b
    ELSE IF b = 0 THEN a
    ELSE ((a + b) % 2) + 2 * Xor(a \div 2, b \div 2)

\* The repeating pattern base (a tuple) written over n bytes, unit bytes at a time.
Pattern(base, unit, n) == [i \in 0 .. n - 1 |-> base[((i \div unit) % Len(base)) + 1]]

\* The byte values of the patterns (XOR adds 3, and 252..254 to the images).
ByteVals == {0, 1, 2}

Bases == UNION {[1 .. p -> ByteVals] : p \in 1 .. MaxPeriod}

\* The images handed to Compress: w = 8 up to MaxH rows, w = 16 up to half of
\* that; plane bytes repeating with a period of 1, 2 or 3 (3 and the stride
\* being coprime, the rows then differ).
ImgBases == UNION {[1 .. p -> ByteVals \cup {255}] : p \in {1, 2, 3}}

ImgHeights(width) == 1 .. (IF width = 8 THEN MaxH ELSE MaxH \div 2)

\* ------------------------------------------------------ MakeInterlaceTable

\* hrz_steps = range(0x51)
MaxHrz == 80
hrz_steps == 0 .. MaxHrz

\* A builder that steps by one inside a residue class.
NextIndexByOne(i, step) == i + 1

\* i += step
NextIndex(i, step) == i + step

\* while i < size: result[writeofs] = i; writeofs += 1; i += step
\* (a store past the end of result raises IndexError: err)
RECURSIVE InnerFill(_, _, _, _)
InnerFill(st, i, step, n) ==
    IF i < n /\ ~st.err
    THEN IF st.writeofs >= n
         THEN [st EXCEPT !.err = TRUE]
         ELSE InnerFill([result |-> [st.result EXCEPT ![st.writeofs] = i],
                         writeofs |-> st.writeofs + 1, err |-> FALSE],
                        NextIndex(i, step), step, n)
    ELSE st

\* while start < step: i = start; <inner loop>; start += 1
RECURSIVE OuterFill(_, _, _, _)
OuterFill(st, start, step, n) ==
    IF start < step /\ ~st.err
    THEN OuterFill(InnerFill(st, start, step, n), start + 1, step, n)
    ELSE st

\* result = [None] * size; start = 0; writeofs = 0; <outer loop>
TableFor(n, step) ==
    OuterFill([result |-> [k \in 0 .. n - 1 |-> None], writeofs |-> 0, err |-> FALSE],
              0, step, n)

\* The dictionary returned: no entry for step 0.
MakeInterlaceTable(n, stepset) == [step \in stepset \ {0} |-> TableFor(n, step).result]

TableRaises(n, stepset) == \E step \in stepset \ {0} : TableFor(n, step).err

\* -------------------------------------------------------------- VerticalIX

\* A filter that forgets the marker byte of each row.
RowAboveNoMarker(ofs, stride) == ofs - stride

\* The row above, same column: writeofs - stride - 1
RowAbove(ofs, stride) == ofs - stride - 1

\* for row in vrt_list: workview[writeofs:writeofs + stride] = srcview[readofs:...]
RECURSIVE CopyRows(_, _, _, _, _, _)
CopyRows(workview, srcview, vrt_list, k, ofs, stride) ==
    IF k < Len0(vrt_list)
    THEN LET readofs == vrt_list[k] * stride
         IN CopyRows([i \in DOMAIN workview |->
                         IF i >= ofs /\ i < ofs + stride
                         THEN srcview[readofs + (i - ofs)] ELSE workview[i]],
                     srcview, vrt_list, k + 1, ofs + stride + 1, stride)
    ELSE [workview |-> workview, writeofs |-> ofs]

\* for i in range(count): writeofs -= 1; workview[writeofs] ^= workview[writeofs - stride - 1]
RECURSIVE XorBack(_, _, _, _)
XorBack(workview, ofs, count, stride) ==
    IF count = 0 THEN workview
    ELSE XorBack([workview EXCEPT ![ofs - 1] = Xor(@, workview[RowAbove(ofs - 1, stride)])],
                 ofs - 1, count - 1, stride)

VerticalIX(srcview, workview, width, height, vrt_list) ==
    LET stride == width \div 2
        c == CopyRows(workview, srcview, vrt_list, 0, 1, stride)
    IN IF height = 1 THEN c.workview
       ELSE XorBack(c.workview, c.writeofs - 1, (stride + 1) * (height - 1), stride)

\* ------------------------------------------------------------ HorizontalIX

\* A filter that XORs with the previous filtered value.
NextLastFiltered(lastbyte, nextbyte) == Xor(lastbyte, nextbyte)

\* lastbyte = nextbyte
NextLast(lastbyte, nextbyte) == nextbyte

\* for x in range(stride): nextbyte = workview[rowstart + lookup[x]]
\*     rowbuf[hrz][lookup[x] + 1] = lastbyte ^ nextbyte; lastbyte = nextbyte
RECURSIVE BuildCandidate(_, _, _, _, _, _, _)
BuildCandidate(cand, workview, rstart, lookup, x, lastbyte, stride) ==
    IF x < stride
    THEN LET nextbyte == workview[rstart + lookup[x]]
         IN BuildCandidate([cand EXCEPT ![lookup[x] + 1] = Xor(lastbyte, nextbyte)],
                           workview, rstart, lookup, x + 1,
                           NextLast(lastbyte, nextbyte), stride)
    ELSE cand

\* The row's copies, one per horizontal step: rowbuf[0][1:1 + stride] = the row,
\* and rowbuf[hrz] as built above.
RowCandidates(rbuf, workview, rstart, stride, lookups) ==
    [hrz \in hrz_steps |->
        IF hrz = 0
        THEN [i \in 0 .. stride |-> IF i = 0 THEN rbuf[0][0] ELSE workview[rstart + i - 1]]
        ELSE BuildCandidate(rbuf[hrz], workview, rstart, lookups[hrz], 0, 0, stride)]

\* for x in range(stride + 1): the bit estimate of one candidate.  resets
\* records the x after which "align == 0" cleared nullrun.
RECURSIVE Estimate(_, _, _, _)
Estimate(row, x, st, stride) ==
    IF x <= stride
    THEN LET nz == row[x] # 0
             run == IF nz THEN 0 ELSE (st.nullrun + 1) % 8
             credit == ~nz /\ run = 0
             al == (st.align + 1) % 8
         IN Estimate(row, x + 1,
                     [nullrun |-> IF al = 0 THEN 0 ELSE run,
                      bits |-> IF nz THEN st.bits + 8
                               ELSE IF credit THEN st.bits - 8 ELSE st.bits,
                      align |-> al,
                      resets |-> IF al = 0 THEN st.resets \cup {x} ELSE st.resets],
                     stride)
    ELSE st

EstimateRow(row, rstart, stride) ==
    Estimate(row, 0, [nullrun |-> 0, bits |-> 0, align |-> rstart,
                      resets |-> {}], stride)

\* bestbits = 0xFFFF; for hrz in hrz_steps: ... if bits < bestbits: bestbits = bits; besthrz = hrz
\* The steps are tried in rising order and only a strictly smaller estimate
\* replaces the best one, so the loop leaves the lowest step of the least
\* estimate; it leaves besthrz as it was when no estimate is below 0xFFFF.
BestCandidate(cands, prevhrz, rstart, stride) ==
    LET est == [hrz \in hrz_steps |-> EstimateRow(cands[hrz], rstart, stride)]
        least == CHOOSE b \in {est[hrz].bits : hrz \in hrz_steps} :
                     \A hrz \in hrz_steps : b <= est[hrz].bits
    IN [bestbits |-> IF least < 65535 THEN least ELSE 65535,
        besthrz |-> IF least < 65535
                    THEN CHOOSE hrz \in hrz_steps :
                             /\ est[hrz].bits = least
                             /\ \A k \in hrz_steps : est[k].bits = least => hrz <= k
                    ELSE prevhrz,
        resets |-> UNION {est[hrz].resets : hrz \in hrz_steps}]

\* A write-back that leaves the row alone when step 0 (the row as it is) wins.
WriteBackSkipZero(workview, rstart, stride, rbuf, hrz) ==
    [i \in DOMAIN workview |->
        IF hrz # 0 /\ i >= rstart - 1 /\ i < rstart + stride THEN rbuf[hrz][i - (rstart - 1)]
        ELSE workview[i]]

\* workview[rowstart - 1:rowstart + stride] = rowbuf[besthrz]
WriteBack(workview, rstart, stride, rbuf, hrz) ==
    [i \in DOMAIN workview |->
        IF i >= rstart - 1 /\ i < rstart + stride THEN rbuf[hrz][i - (rstart - 1)]
        ELSE workview[i]]

\* Lines 76-84 of the loop over y: the candidates of the row at st.rowstart.
RowBuild(st, stride, lookups) ==
    [st EXCEPT !.rowbuf = RowCandidates(st.rowbuf, st.workview, st.rowstart, stride, lookups)]

\* Lines 87-113: estimate, choose, write back, next row.  besthrz is the local
\* left by the row before (None before the first row); every estimate is below
\* 0xFFFF, so the first candidate always binds it.
RowChoose(st, stride) ==
    LET best == BestCandidate(st.rowbuf, st.besthrz, st.rowstart, stride)
    IN [workview |-> WriteBack(st.workview, st.rowstart, stride, st.rowbuf, best.besthrz),
        rowbuf |-> st.rowbuf,
        rowstart |-> st.rowstart + stride + 1,
        besthrz |-> best.besthrz,
        resets |-> st.resets \cup {st.rowstart - 1 + x : x \in best.resets}]

HorizontalRow(st, stride, lookups) == RowChoose(RowBuild(st, stride, lookups), stride)

RECURSIVE HorizontalRows(_, _, _, _)
HorizontalRows(st, rows, stride, lookups) ==
    IF rows = 0 THEN st
    ELSE HorizontalRows(HorizontalRow(st, stride, lookups), rows - 1, stride, lookups)

HorizontalIX(workview, rbuf, width, height, lookups) ==
    HorizontalRows([workview |-> workview, rowbuf |-> rbuf, rowstart |-> 1,
                    besthrz |-> None, resets |-> {}],
                   height, width \div 2, lookups)

\* ------------------------------------------------------------------ Encode

\* flagAbitsleft = ((readofs + 7) >> 3) & 7; if flagAbitsleft == 0: flagAbitsleft = 8
FlagAInit(readofs) ==
    LET v == ((readofs + 7) \div 8) % 8 IN IF v = 0 THEN 8 ELSE v

\* A start that takes the buffer for a whole number of flag B groups.
FlagBInitNoTail(readofs) == 8

\* flagBbitsleft = readofs & 7; if flagBbitsleft == 0: flagBbitsleft = 8
FlagBInit(readofs) ==
    LET v == readofs % 8 IN IF v = 0 THEN 8 ELSE v

\* flag |= 0x80, on a flag that was just shifted right
SetTopBit(flag) == IF flag >= 128 THEN flag ELSE flag + 128

\* writeofs -= 1; finalview[writeofs] = val.  A negative index counts from the
\* end; one below -len raises IndexError (err).
Emit(st, val) ==
    LET n == Len0(st.finalview)
        ofs == st.writeofs - 1
    IN IF st.err THEN st
       ELSE IF ofs < -n THEN [st EXCEPT !.err = TRUE]
       ELSE [st EXCEPT !.writeofs = ofs,
                       !.finalview = [@ EXCEPT ![IF ofs < 0 THEN ofs + n ELSE ofs] = val]]

\* Lines 147-151: the end of a flag B group.
CloseGroupB(st) ==
    IF st.flagB # 0
    THEN [Emit(st, st.flagB) EXCEPT !.flagA = SetTopBit(st.flagA \div 2)]
    ELSE [st EXCEPT !.flagA = st.flagA \div 2]

\* An encoder that omits a flag A byte of zero, as it omits a flag B byte of zero.
CloseGroupAOmitZero(st) ==
    IF st.flagAbitsleft - 1 = 0
    THEN IF st.flagA # 0 THEN [Emit(st, st.flagA) EXCEPT !.flagAbitsleft = 8]
         ELSE [st EXCEPT !.flagAbitsleft = 8]
    ELSE [st EXCEPT !.flagAbitsleft = st.flagAbitsleft - 1]

\* Lines 152-156: the end of a flag A block.
CloseGroupA(st) ==
    IF st.flagAbitsleft - 1 = 0
    THEN [Emit(st, st.flagA) EXCEPT !.flagAbitsleft = 8]
    ELSE [st EXCEPT !.flagAbitsleft = st.flagAbitsleft - 1]

\* while readofs != 0: one pass of the loop, lines 136-156.
RECURSIVE EncodeLoop(_, _)
EncodeLoop(workview, st) ==
    IF st.readofs # 0 /\ ~st.err
    THEN LET byte == workview[st.readofs - 1]
             s1 == [st EXCEPT !.flagB = st.flagB \div 2, !.readofs = st.readofs - 1]
             s2 == IF byte # 0
                   THEN [Emit(s1, byte) EXCEPT !.flagB = SetTopBit(s1.flagB)]
                   ELSE s1
             s3 == IF s2.flagBbitsleft - 1 = 0
                   THEN CloseGroupA(CloseGroupB([s2 EXCEPT !.flagBbitsleft = 8]))
                   ELSE [s2 EXCEPT !.flagBbitsleft = s2.flagBbitsleft - 1]
         IN EncodeLoop(workview, s3)
    ELSE st

Encode(workview, finalview) ==
    EncodeLoop(workview,
               [finalview |-> finalview, flagA |-> 0, flagB |-> 0,
                readofs |-> Len0(workview), writeofs |-> Len0(finalview),
                flagAbitsleft |-> FlagAInit(Len0(workview)),
                flagBbitsleft |-> FlagBInit(Len0(workview)), err |-> FALSE])

\* ---------------------------------------------------------------- Compress

\* for vrt in [2, 1, 4]
vrt_order == <<2, 1, 4>>

\* rowbuf[hrz] = bytearray(stride + 1); rowbuf[hrz][0] = hrz
NewRowbuf(stride) == [hrz \in hrz_steps |-> [i \in 0 .. stride |-> IF i = 0 THEN hrz ELSE 0]]

\* bytearray(len(workview) * 8 // 7)
FinalLen(worklen) == (worklen * 8) \div 7

\* if img.width > 640 / if img.height > 400
MaxWidth == 640
MaxHeight == 400

\* The longest payload Compress returns: its offset is above 0.
MaxPayloadLen == FinalLen((MaxWidth \div 2 + 1) * MaxHeight) - 1

\* The header bytes the module stores after Compress.
HeaderOffsets == {16, 17, 88, 89}

\* ------------------------------------------------------------ idle values

NoTable == size = 0 /\ steps = {} /\ table = <<>>

NoImage == w = 0 /\ h = 0 /\ srcbuf = <<>> /\ hrz_lookup = <<>> /\ vrt_lookup = <<>>
           /\ rowbuf = <<>> /\ vrtidx = 0 /\ y = 0 /\ rowstart = 0 /\ besthrz = None
           /\ bestofs = 0 /\ bestbuf = <<>> /\ resets = {}

NoBuffers == workbuf = <<>> /\ finalbuf = <<>> /\ writeofs = None

NoHeader == compressed_len = None /\ outbuf = <<>>

\* ------------------------------------------------- the permutation builder

InitTable ==
    /\ pc = "MakeInterlaceTable"
    /\ size \in 1 .. MaxSize
    /\ steps \in SUBSET (0 .. MaxStep)
    /\ table = <<>>
    /\ NoImage /\ NoBuffers /\ NoHeader /\ bestvrt = None

CallMakeInterlaceTable ==
    /\ pc = "MakeInterlaceTable"
    /\ pc' = IF TableRaises(size, steps) THEN "IndexError" ELSE "TableDone"
    /\ table' = IF TableRaises(size, steps) THEN table ELSE MakeInterlaceTable(size, steps)
    /\ UNCHANGED <<size, steps, w, h, srcbuf, hrz_lookup, vrt_lookup, rowbuf, workbuf,
                   finalbuf, writeofs, vrtidx, y, rowstart, besthrz, bestofs, bestbuf,
                   bestvrt, resets, compressed_len, outbuf>>

SpecTable == InitTable /\ [][CallMakeInterlaceTable]_vars

\* ------------------------------------------------------- the encoder alone

\* The patterns repeat byte by byte, in runs of 5 (runs of zeros that cover some
\* flag B groups and cut others) and flag B group by group.
Units == {1, 5, 8}

\* A final buffer as Encode finds it: zeroed, or holding an earlier trial's bytes.
Fill == {0, 170}

InitEncode ==
    /\ pc = "Encode"
    /\ \E n \in 1 .. MaxLen, base \in Bases, unit \in Units, fill \in Fill :
          /\ workbuf = Pattern(base, unit, n)
          /\ finalbuf = [i \in 0 .. FinalLen(n) - 1 |-> fill]
    /\ writeofs = None
    /\ NoTable /\ NoImage /\ NoHeader /\ bestvrt = None

CallEncode ==
    /\ pc = "Encode"
    /\ LET r == Encode(workbuf, finalbuf)
       IN /\ pc' = IF r.err THEN "IndexError" ELSE "EncodeDone"
          /\ finalbuf' = r.finalview
          /\ writeofs' = r.writeofs
    /\ UNCHANGED <<size, steps, table, w, h, srcbuf, hrz_lookup, vrt_lookup, rowbuf,
                   workbuf, vrtidx, y, rowstart, besthrz, bestofs, bestbuf, bestvrt,
                   resets, compressed_len, outbuf>>

SpecEncode == InitEncode /\ [][CallEncode]_vars

\* ------------------------------------------------------------ Compress run

InitCompress ==
    /\ pc = "Compress"
    /\ \E width \in {8, 16}, base \in ImgBases :
          \E height \in ImgHeights(width) :
             /\ w = width
             /\ h = height
             /\ srcbuf = Pattern(base, 1, (w \div 2) * h)
    /\ hrz_lookup = <<>> /\ vrt_lookup = <<>> /\ rowbuf = <<>>
    /\ vrtidx = 0 /\ y = 0 /\ rowstart = 0 /\ besthrz = None
    /\ bestofs = 0 /\ bestbuf = <<>> /\ bestvrt = None
    /\ resets = {}
    /\ NoTable /\ NoBuffers /\ NoHeader

\* Lines 161-173: the tables, the row candidates, the work and final buffers.
CompressBegin ==
    /\ pc = "Compress"
    /\ LET stride == w \div 2
       IN /\ hrz_lookup' = MakeInterlaceTable(stride, hrz_steps)
          /\ vrt_lookup' = MakeInterlaceTable(h, {1, 2, 4})
          /\ rowbuf' = NewRowbuf(stride)
          /\ workbuf' = Zeros((stride + 1) * h)
          /\ finalbuf' = Zeros(FinalLen((stride + 1) * h))
    /\ bestofs' = 0
    /\ vrtidx' = 1
    /\ pc' = "VerticalIX"
    /\ UNCHANGED <<size, steps, table, w, h, srcbuf, writeofs, y, rowstart, besthrz,
                   bestbuf, bestvrt, resets, compressed_len, outbuf>>

\* Line 177, and the first lines of HorizontalIX (rowstart = 1).
TrialVerticalIX ==
    /\ pc = "VerticalIX"
    /\ workbuf' = VerticalIX(srcbuf, workbuf, w, h, vrt_lookup[vrt_order[vrtidx]])
    /\ y' = 0
    /\ rowstart' = 1
    /\ besthrz' = None
    /\ resets' = {}
    /\ pc' = "RowBuild"
    /\ UNCHANGED <<size, steps, table, w, h, srcbuf, hrz_lookup, vrt_lookup, rowbuf,
                   finalbuf, writeofs, vrtidx, bestofs, bestbuf, bestvrt,
                   compressed_len, outbuf>>

RowState ==
    [workview |-> workbuf, rowbuf |-> rowbuf, rowstart |-> rowstart,
     besthrz |-> besthrz, resets |-> resets]

\* HorizontalIX, lines 76-84, for row y.
TrialRowBuild ==
    /\ pc = "RowBuild"
    /\ rowbuf' = RowBuild(RowState, w \div 2, hrz_lookup).rowbuf
    /\ pc' = "RowChoose"
    /\ UNCHANGED <<size, steps, table, w, h, srcbuf, hrz_lookup, vrt_lookup, workbuf,
                   finalbuf, writeofs, vrtidx, y, rowstart, besthrz, bestofs, bestbuf,
                   bestvrt, resets, compressed_len, outbuf>>

\* HorizontalIX, lines 87-113, for row y; after the last row HorizontalIX returns.
TrialRowChoose ==
    /\ pc = "RowChoose"
    /\ LET st == RowChoose(RowState, w \div 2)
       IN /\ workbuf' = st.workview
          /\ rowstart' = st.rowstart
          /\ besthrz' = st.besthrz
          /\ resets' = st.resets
    /\ y' = y + 1
    /\ pc' = IF y + 1 < h THEN "RowBuild" ELSE "Encode"
    /\ UNCHANGED <<size, steps, table, w, h, srcbuf, hrz_lookup, vrt_lookup, rowbuf,
                   finalbuf, writeofs, vrtidx, bestofs, bestbuf, bestvrt,
                   compressed_len, outbuf>>

\* Line 179.
TrialEncode ==
    /\ pc = "Encode"
    /\ LET r == Encode(workbuf, finalbuf)
       IN /\ pc' = IF r.err THEN "IndexError" ELSE "Select"
          /\ finalbuf' = r.finalview
          /\ writeofs' = r.writeofs
    /\ UNCHANGED <<size, steps, table, w, h, srcbuf, hrz_lookup, vrt_lookup, rowbuf,
                   workbuf, vrtidx, y, rowstart, besthrz, bestofs, bestbuf, bestvrt,
                   resets, compressed_len, outbuf>>

\* bestbuf = finalbuf[writeofs:]: a copy
TakeSlice(buf, from) == SliceFrom(buf, from)

\* Lines 180-183, and the next vrt of the for loop.
TrialSelect ==
    /\ pc = "Select"
    /\ IF writeofs > bestofs
       THEN /\ bestbuf' = TakeSlice(finalbuf, writeofs)
            /\ bestofs' = writeofs
            /\ bestvrt' = vrt_order[vrtidx]
       ELSE UNCHANGED <<bestbuf, bestofs, bestvrt>>
    /\ vrtidx' = vrtidx + 1
    /\ pc' = IF vrtidx < Len(vrt_order) THEN "VerticalIX" ELSE "Return"
    /\ UNCHANGED <<size, steps, table, w, h, srcbuf, hrz_lookup, vrt_lookup, rowbuf,
                   workbuf, finalbuf, writeofs, y, rowstart, besthrz, resets,
                   compressed_len, outbuf>>

\* Line 184 and line 258: return bestbuf, bestvrt.  Neither local is bound when
\* no trial was selected.
CompressReturn ==
    /\ pc = "Return"
    /\ pc' = IF bestvrt = None THEN "UnboundLocalError" ELSE "CompressDone"
    /\ compressed_len' = IF bestvrt = None THEN compressed_len ELSE Len0(bestbuf)
    /\ UNCHANGED <<size, steps, table, w, h, srcbuf, hrz_lookup, vrt_lookup, rowbuf,
                   workbuf, finalbuf, writeofs, vrtidx, y, rowstart, besthrz, bestofs,
                   bestbuf, bestvrt, resets, outbuf>>

NextCompress ==
    \/ CompressBegin
    \/ TrialVerticalIX
    \/ TrialRowBuild
    \/ TrialRowChoose
    \/ TrialEncode
    \/ TrialSelect
    \/ CompressReturn

SpecCompress == InitCompress /\ [][NextCompress]_vars

\* -------------------------------------------------------------- the header

InitHeader ==
    /\ pc = "Header"
    /\ compressed_len \in 0 .. MaxPayloadLen
    /\ bestvrt \in {2, 1, 4}
    /\ outbuf = [i \in HeaderOffsets |-> 0]
    /\ NoTable /\ NoImage /\ NoBuffers

\* outbuf[i] = val: a bytearray takes 0..255 only (ValueError otherwise).
ByteOk(val) == val >= 0 /\ val <= 255

\* Lines 262-266.
StoreHeader ==
    /\ pc = "Header"
    /\ LET vlo == bestvrt % 256
           vhi == bestvrt \div 256
           lo == compressed_len % 256
           hi == compressed_len \div 256
       IN IF ByteOk(hi)
          THEN /\ outbuf' = [outbuf EXCEPT ![16] = vlo, ![17] = vhi, ![88] = lo, ![89] = hi]
               /\ pc' = "HeaderDone"
          ELSE /\ outbuf' = [outbuf EXCEPT ![16] = vlo, ![17] = vhi, ![88] = lo]
               /\ pc' = "ValueError"
    /\ UNCHANGED <<size, steps, table, w, h, srcbuf, hrz_lookup, vrt_lookup, rowbuf,
                   workbuf, finalbuf, writeofs, vrtidx, y, rowstart, besthrz, bestofs,
                   bestbuf, bestvrt, resets, compressed_len>>

SpecHeader == InitHeader /\ [][StoreHeader]_vars

\* ------------------------------------------------------------------ claims

AllZero(buf) == \A i \in DOMAIN buf : buf[i] = 0

CeilDiv(a, b) == (a + b - 1) \div b

\* C1: Encode never needs more room than the final buffer of floor(L*8/7)
\* bytes that Compress allocates: no store lands outside it (no IndexError, no
\* wrap to the end of the buffer) and the offset returned is never negative.
\* Refuted: 5 nonzero bytes need 7 bytes of the 5 allocated.
EncodeStaysInBuffer ==
    /\ pc # "IndexError"
    /\ pc = "EncodeDone" => writeofs >= 0

\* C3: the decoder of the claim reads the emitted bytes forward from the
\* returned offset: a flag A byte per 64 source bytes, a flag B byte per set
\* flag A bit (most significant bit first), a literal per set flag B bit (most
\* significant bit first), zero otherwise.
BitSet(flag, k) == (flag \div (2 ^ (7 - k))) % 2 = 1

RECURSIVE DecodeFrom(_, _, _)
DecodeFrom(stream, n, d) ==
    IF d.i = n \/ ~d.ok THEN d
    ELSE LET end == Len0(stream)
             needA == d.i % 64 = 0
             okA == ~needA \/ d.pos < end
             flagA == IF needA /\ okA THEN stream[d.pos] ELSE d.flagA
             posA == IF needA THEN d.pos + 1 ELSE d.pos
             needB == d.i % 8 = 0
             hasB == needB /\ BitSet(flagA, (d.i \div 8) % 8)
             okB == ~hasB \/ posA < end
             flagB == IF ~needB THEN d.flagB
                      ELSE IF hasB /\ okB THEN stream[posA] ELSE 0
             posB == IF hasB THEN posA + 1 ELSE posA
             lit == BitSet(flagB, d.i % 8)
             okL == ~lit \/ posB < end
         IN IF ~(okA /\ okB /\ okL) THEN [d EXCEPT !.ok = FALSE]
            ELSE DecodeFrom(stream, n,
                            [out |-> [d.out EXCEPT ![d.i] = IF lit THEN stream[posB] ELSE 0],
                             i |-> d.i + 1, pos |-> IF lit THEN posB + 1 ELSE posB,
                             flagA |-> flagA, flagB |-> flagB, ok |-> TRUE])

Decode(stream, from, n) ==
    DecodeFrom(stream, n, [out |-> [i \in 0 .. n - 1 |-> None], i |-> 0, pos |-> from,
                           flagA |-> 0, flagB |-> 0, ok |-> TRUE])

\* C3: Encode is lossless: whenever the encoding fits the final buffer,
\* decoding the emitted bytes gives back the WorkBuffer and ends exactly at the
\* end of the final buffer.
EncodeLossless ==
    (pc = "EncodeDone" /\ writeofs >= 0) =>
        LET d == Decode(finalbuf, writeofs, Len0(workbuf))
        IN d.ok /\ d.out = workbuf /\ d.pos = Len0(finalbuf)

\* An encoding that fits, of more than one flag A block with an unfinished last
\* group, with a whole group of zeros and a group of zeros and literals.
EncodeLosslessWitness ==
    /\ pc = "EncodeDone" /\ writeofs >= 0
    /\ Len0(workbuf) > 64 /\ Len0(workbuf) % 8 # 0
    /\ \E g \in 0 .. 7 : \A k \in 0 .. 7 : workbuf[8 * g + k] = 0
    /\ \E g \in 0 .. 7 : \E k, m \in 0 .. 7 : workbuf[8 * g + k] = 0 /\ workbuf[8 * g + m] # 0

\* C4 as stated: a WorkBuffer of zero bytes emits nothing, the offset returned
\* is the length of the final buffer.  Refuted: every flag A byte is emitted.
ZeroBufferEmitsNothing ==
    (pc = "EncodeDone" /\ AllZero(workbuf)) => writeofs = Len0(finalbuf)

\* C4 amended: a WorkBuffer of L zero bytes emits its flag A bytes and nothing
\* else, ceil(L/64) bytes of zero; the offset returned is the length of the
\* final buffer less ceil(L/64).
ZeroBufferEmitsFlagA ==
    (pc # "Encode" /\ AllZero(workbuf)) =>
        /\ pc = "EncodeDone"
        /\ writeofs = Len0(finalbuf) - CeilDiv(Len0(workbuf), 64)
        /\ \A i \in DOMAIN finalbuf : i >= writeofs => finalbuf[i] = 0
        /\ \A i \in DOMAIN finalbuf : i < writeofs => finalbuf[i] \in Fill

\* A zero WorkBuffer of more than one flag A block, encoded into a final buffer
\* that held other bytes.
ZeroBufferWitness ==
    /\ pc = "EncodeDone" /\ AllZero(workbuf)
    /\ Len0(workbuf) > 64
    /\ finalbuf[0] # 0
    /\ writeofs = Len0(finalbuf) - 2

\* C5: the place in the list for step s over 0..n-1 of index i, by the
\* ordering of the claim: residue classes 0..s-1 in turn, rising by s inside.
RankInOrder(i, s, n) ==
    Cardinality({j \in 0 .. n - 1 : j % s < i % s \/ (j % s = i % s /\ j < i)})

\* C5: for every size N >= 1 and every step s >= 1, steps of N and more
\* included, the list stored for s holds each index of 0..N-1 exactly once, in
\* the order of the residue classes; it is the identity for s = 1; nothing is
\* stored for step 0; and building never fails.
TableIsPermutation ==
    /\ pc # "IndexError"
    /\ pc = "TableDone" =>
          /\ DOMAIN table = steps \ {0}
          /\ \A s \in DOMAIN table :
                /\ DOMAIN table[s] = 0 .. size - 1
                /\ \A i \in 0 .. size - 1 : table[s][RankInOrder(i, s, size)] = i
                /\ \A k \in 0 .. size - 1 : table[s][k] \in 0 .. size - 1
                /\ \A k, m \in 0 .. size - 1 : table[s][k] = table[s][m] => k = m
                /\ s = 1 => \A k \in 0 .. size - 1 : table[s][k] = k

\* A table built for step 0, step 1, a step that reorders and a step of at
\* least the size.
TableWitness ==
    /\ pc = "TableDone"
    /\ {0, 1} \subseteq steps
    /\ \E s \in steps : s >= size
    /\ \E s \in steps : s > 1 /\ s < size /\ \E k \in 0 .. size - 1 : table[s][k] # k

\* C6: storing the payload length in the header succeeds for every length
\* Compress can return for an accepted image, and the field holds the low 16
\* bits.  Refuted: from 65536 bytes on the high byte is no byte value.
LengthFieldStored ==
    /\ pc # "ValueError"
    /\ pc = "HeaderDone" =>
          /\ outbuf[88] = compressed_len % 256
          /\ outbuf[89] = (compressed_len \div 256) % 256

\* C2: Compress completes for every well-formed PlaneBuffer and returns a
\* final buffer with a vertical step of 2, 1 or 4: after the three trials one
\* of them has been selected.  Refuted: a trial whose offset is 0 or less is
\* never selected.
CompressReturnsResult ==
    /\ pc \notin {"UnboundLocalError", "IndexError"}
    /\ pc = "Return" => bestvrt \in {2, 1, 4}

\* C7: one trial run alone, for vertical step vrt, on buffers as Compress
\* allocates them.
FreshTrial(vrt) ==
    LET stride == w \div 2
        worklen == (stride + 1) * h
        v == VerticalIX(srcbuf, Zeros(worklen), w, h, vrt_lookup[vrt])
        hz == HorizontalIX(v, NewRowbuf(stride), w, h, hrz_lookup)
    IN Encode(hz.workview, Zeros(FinalLen(worklen)))

Emitted(e) == SliceFrom(e.finalview, e.writeofs)

\* C7: each trial of Compress, run after the others on the same work buffer,
\* row candidates and final buffer, returns the offset and emits the bytes of the
\* trial run alone on fresh buffers; and the buffer kept for the best trial stays
\* that trial's bytes through the trials that follow.
TrialsIndependent ==
    /\ pc = "Select" =>
          LET e == FreshTrial(vrt_order[vrtidx])
          IN /\ ~e.err
             /\ writeofs = e.writeofs
             /\ SliceFrom(finalbuf, writeofs) = Emitted(e)
    /\ (pc \in {"VerticalIX", "Return", "CompressDone"} /\ bestvrt # None) =>
          LET e == FreshTrial(bestvrt)
          IN bestofs = e.writeofs /\ bestbuf = Emitted(e)

\* The third trial has run over what the first two left: a marker byte that is
\* not zero in the work buffer, and a kept buffer of an earlier trial whose
\* bytes are no longer those of the final buffer.
TrialsWitness ==
    /\ pc = "Return" /\ bestvrt \in {2, 1} /\ Len0(bestbuf) > 0
    /\ bestbuf # SliceFrom(finalbuf, bestofs)
    /\ \E k \in 0 .. h - 1 : workbuf[k * (w \div 2 + 1)] # 0
    /\ h >= 3

\* C8: source row r of the PlaneBuffer, and row k of the WorkBuffer less its
\* leading byte.
SrcRow(r) == [j \in 0 .. w \div 2 - 1 |-> srcbuf[r * (w \div 2) + j]]

WorkRow(k) == [j \in 0 .. w \div 2 - 1 |-> workbuf[k * (w \div 2 + 1) + 1 + j]]

XorRows(a, b) == [j \in DOMAIN a |-> Xor(a[j], b[j])]

RECURSIVE Accumulated(_)
Accumulated(k) == IF k = 0 THEN WorkRow(0) ELSE XorRows(WorkRow(k), Accumulated(k - 1))

\* C8: after VerticalIX with row permutation p, row 0 of the WorkBuffer is
\* source row p[0] and row k is source row p[k] XOR source row p[k-1]; the rows
\* XOR-accumulated from the first give back the source rows in permuted order.
VerticalDelta ==
    (pc = "RowBuild" /\ y = 0) =>
        LET p == vrt_lookup[vrt_order[vrtidx]]
        IN \A k \in 0 .. h - 1 :
              /\ WorkRow(k) = IF k = 0 THEN SrcRow(p[0])
                              ELSE XorRows(SrcRow(p[k]), SrcRow(p[k - 1]))
              /\ Accumulated(k) = SrcRow(p[k])

\* VerticalIX has run with a permutation that moves rows, over rows that
\* differ, after a trial that left markers in the leading bytes.
VerticalWitness ==
    /\ pc = "RowBuild" /\ y = 0 /\ h >= 3 /\ vrtidx >= 2
    /\ \E k \in 0 .. h - 1 : vrt_lookup[vrt_order[vrtidx]][k] # k
    /\ \E k \in 1 .. h - 1 : WorkRow(k) # Zeros(w \div 2) /\ WorkRow(k) # SrcRow(k)
    /\ \E k \in 0 .. h - 1 : workbuf[k * (w \div 2 + 1)] # 0

\* C9: the row HorizontalIX is at, before it is overwritten.
CurrentRow == [j \in 0 .. w \div 2 - 1 |-> workbuf[rowstart + j]]

\* C9 as stated: the bytes permuted by the step's permutation, then each XORed
\* with the previous filtered value.
RECURSIVE PermutedFiltered(_, _, _)
PermutedFiltered(row, p, x) ==
    IF x = 0 THEN row[p[0]] ELSE Xor(row[p[x]], PermutedFiltered(row, p, x - 1))

\* C9 as stated: the candidate of step s > 0 has header byte s and the payload
\* PermutedFiltered; the candidate of step 0 is the row with header byte 0.
\* Refuted: the filter XORs with the previous byte of the row, not with the
\* previous filtered value, and stores the result at the byte's own place.
CandidatePermutedFiltered ==
    pc = "RowChoose" =>
        /\ rowbuf[0] = [i \in 0 .. w \div 2 |-> IF i = 0 THEN 0 ELSE CurrentRow[i - 1]]
        /\ \A s \in hrz_steps \ {0} :
              /\ rowbuf[s][0] = s
              /\ \A x \in 0 .. w \div 2 - 1 :
                    rowbuf[s][x + 1] = PermutedFiltered(CurrentRow, hrz_lookup[s], x)

\* C9 amended: the candidate of step s > 0 has header byte s, and with p the
\* step's permutation its payload holds at place p[0] the row's byte p[0] and at
\* place p[x], x > 0, the row's byte p[x] XOR the row's byte p[x-1]: the delta
\* runs along the permuted order over the row's own bytes, and each result stays
\* at its byte's place in the row.  The candidate of step 0 is the row with
\* header byte 0.
CandidateDeltaInPlace ==
    pc = "RowChoose" =>
        /\ rowbuf[0] = [i \in 0 .. w \div 2 |-> IF i = 0 THEN 0 ELSE CurrentRow[i - 1]]
        /\ \A s \in hrz_steps \ {0} :
              LET p == hrz_lookup[s]
              IN /\ rowbuf[s][0] = s
                 /\ DOMAIN rowbuf[s] = 0 .. w \div 2
                 /\ \A x \in 0 .. w \div 2 - 1 :
                       rowbuf[s][p[x] + 1] =
                           IF x = 0 THEN CurrentRow[p[0]]
                           ELSE Xor(CurrentRow[p[x]], CurrentRow[p[x - 1]])

\* Candidates built for a row of differing bytes, in a later row (the
\* candidates of the row before were in rowbuf), with a step that reorders.
CandidateWitness ==
    /\ pc = "RowChoose" /\ y >= 1
    /\ \E i, j \in DOMAIN CurrentRow : CurrentRow[i] # 0 /\ CurrentRow[j] # CurrentRow[i]
    /\ \E i \in 1 .. w \div 2 : rowbuf[2][i] # rowbuf[1][i]
    /\ \E i \in 1 .. w \div 2 : rowbuf[3][i] # rowbuf[1][i]

\* C10: in the estimate of HorizontalIX the zero-run counter is reset exactly
\* after each byte whose index in the WorkBuffer is 7 modulo 8, the last byte
\* of a flag B group of Encode.  Refuted: it is reset after the bytes whose
\* index is 6 modulo 8.
AlignResetsAtGroupEnd ==
    pc = "Encode" => resets = {i \in DOMAIN workbuf : i % 8 = 7}

====
